---------------------------- MODULE Spec2Model ----------------------------
(***************************************************************************)
(* A model of hallucination.py: the Signal class that loads TEDLIUM3       *)
(* segments from HuggingFace or from a pickled cache, and the two static   *)
(* helpers rename_file and _format_time.                                    *)
(*                                                                         *)
(* Python strings are sequences of one-character strings.  A Python call   *)
(* is an operator whose value is Return(v) or Raise(e): the exception a    *)
(* statement raises is the value of the operator that models it.           *)
(***************************************************************************)
EXTENDS Naturals, Sequences, FiniteSets

VARIABLES
    arg,          \* the argument of the static helper under examination
    ret,          \* what the helper returned or raised
    so_segments,  \* self.so_segments: the allow-list read by __init__
    cache,        \* the file named self.pickle_filename
    cacheInit,    \* the cache file as it was before any call (history)
    proc,         \* per process: the position and locals of load_from_hf
    returned,     \* the snapshots successful held-back calls returned (history)
    lastDump      \* the bytes of the latest completed pickle.dump (history)

vars == <<arg, ret, so_segments, cache, cacheInit, proc, returned, lastDump>>

-----------------------------------------------------------------------------
(* Bounds of the model.                                                    *)

MaxIdLen == 5     \* longest generated segment id
MaxTimeLen == 5   \* longest generated time string
MaxTail == 3      \* longest generated tail after a fixed time prefix
MaxCalls == 2     \* calls of load_from_hf per process
MaxStream == 2    \* longest stream of segments the source yields

-----------------------------------------------------------------------------
(* Python values and outcomes.                                             *)

Return(v) == [exc |-> "none", val |-> v]
Raise(e) == [exc |-> e]
Pending == [exc |-> "pending"]

PyNone == [type |-> "NoneType"]
PyBool(b) == [type |-> "bool", v |-> b]
PyStr(s) == [type |-> "str", v |-> s]
Segment(id) == [type |-> "dict", id |-> id]

\* bool(x) as the if statement of line 137 and the filter of line 99 take it
Truthy(x) ==
    CASE x.type = "NoneType" -> FALSE
      [] x.type = "bool" -> x.v
      [] x.type = "str" -> x.v # <<>>
      [] OTHER -> TRUE

\* x['id']: only a dict can be subscripted by a string
Subscript(x) ==
    IF x.type = "dict" THEN Return(x.id) ELSE Raise("TypeError")

\* x in s, for s a set: x is hashed first, and a dict has no hash
PyIn(x, s) ==
    IF x.type = "dict" THEN Raise("TypeError") ELSE Return(x \in s)

SeqsUpTo(A, n) == UNION {[1..k -> A] : k \in 0..n}

-----------------------------------------------------------------------------
(* Characters.                                                             *)

DigitSeq == <<"0", "1", "2", "3", "4", "5", "6", "7", "8", "9">>
Digits == {DigitSeq[i] : i \in 1..10}
DigitVal(c) == (CHOOSE i \in 1..10 : DigitSeq[i] = c) - 1
Letters ==
    {"a", "b", "c", "d", "e", "f", "g", "h", "i", "j", "k", "l", "m",
     "n", "o", "p", "q", "r", "s", "t", "u", "v", "w", "x", "y", "z",
     "A", "B", "C", "D", "E", "F", "G", "H", "I", "J", "K", "L", "M",
     "N", "O", "P", "Q", "R", "S", "T", "U", "V", "W", "X", "Y", "Z"}
\* [a-zA-Z_\d\.] and [\d\.] of the pattern of line 134
IdClass == Letters \cup Digits \cup {"_", "."}
TimeClass == Digits \cup {"."}

-----------------------------------------------------------------------------
(* _format_time, lines 148-158.                                            *)

StripZeros(ds) ==
    LET nz == {i \in 1..Len(ds) : ds[i] # "0"}
    IN  IF nz = {} THEN <<>>
        ELSE SubSeq(ds, CHOOSE i \in nz : \A j \in nz : i <= j, Len(ds))

\* Decimal(time_str) for a string of digits and dots: digits with at most one
\* dot and at least one digit, else decimal.InvalidOperation
Decimal(time_str) ==
    LET dots == {i \in 1..Len(time_str) : time_str[i] = "."}
        dot == IF dots = {} THEN Len(time_str) + 1 ELSE CHOOSE i \in dots : TRUE
    IN  IF /\ \A i \in 1..Len(time_str) : time_str[i] \in TimeClass
           /\ Cardinality(dots) <= 1
           /\ Len(time_str) > Cardinality(dots)
        THEN Return([type |-> "Decimal",
                     int |-> StripZeros(SubSeq(time_str, 1, dot - 1)),
                     frac |-> SubSeq(time_str, dot + 1, Len(time_str))])
        ELSE Raise("InvalidOperation")

\* d.quantize(Decimal('0.00000001'), rounding=ROUND_DOWN): eight fractional
\* digits, the further ones dropped; InvalidOperation when the result needs
\* more digits than the context's precision
quantize(d) ==
    IF Len(d.int) + 8 > 28 THEN Raise("InvalidOperation")
    ELSE Return([d EXCEPT !.frac =
            [i \in 1..8 |-> IF i <= Len(d.frac) THEN d.frac[i] ELSE "0"]])

RECURSIVE IncDigits(_)
IncDigits(ds) ==
    IF ds = <<>> THEN <<"1">>
    ELSE LET front == SubSeq(ds, 1, Len(ds) - 1)
             last == ds[Len(ds)]
         IN  IF last = "9" THEN IncDigits(front) \o <<"0">>
             ELSE front \o <<DigitSeq[DigitVal(last) + 2]>>

\* f"{d:.6f}": six fractional digits, rounded by the context's rounding mode,
\* which is ROUND_HALF_EVEN; the integer part is at least "0"
format_6f(d) ==
    LET n == Len(d.frac)
        kept == d.int \o [i \in 1..6 |-> IF i <= n THEN d.frac[i] ELSE "0"]
        rest == SubSeq(d.frac, 7, n)
        more == \E i \in 2..Len(rest) : rest[i] # "0"
        odd == DigitVal(kept[Len(kept)]) % 2 = 1
        up == /\ rest # <<>>
              /\ \/ DigitVal(rest[1]) > 5
                 \/ DigitVal(rest[1]) = 5 /\ (more \/ odd)
        digits == IF up THEN IncDigits(kept) ELSE kept
        k == Len(digits) - 6
    IN  (IF k = 0 THEN <<"0">> ELSE SubSeq(digits, 1, k))
            \o <<".">> \o SubSeq(digits, k + 1, Len(digits))

\* s.replace('.', '')
replace_dot(s) == SelectSeq(s, LAMBDA c : c # ".")

_format_time(time_str) ==
    LET time == Decimal(time_str)
    IN  IF time.exc # "none" THEN time
        ELSE LET q == quantize(time.val)
             IN  IF q.exc # "none" THEN q
                 ELSE Return(replace_dot(format_6f(q.val)))

-----------------------------------------------------------------------------
(* rename_file, lines 119-146.                                             *)

\* the last index of the longest run of characters of C that starts at i
RunEnd(s, i, C) ==
    CHOOSE j \in (i - 1)..Len(s) :
        /\ \A k \in i..j : s[k] \in C
        /\ j = Len(s) \/ s[j + 1] \notin C

\* the pattern of line 134 matched at the start of s: the three groups are the
\* longest runs, since "-" is in neither class and no shorter run can be
\* followed by it; what follows the end group is not looked at
MatchTimings(s) ==
    LET e1 == RunEnd(s, 1, IdClass)
        e2 == RunEnd(s, e1 + 2, TimeClass)
        e3 == RunEnd(s, e2 + 2, TimeClass)
    IN  IF /\ e1 >= 1 /\ e1 + 1 <= Len(s) /\ s[e1 + 1] = "-"
           /\ e2 >= e1 + 2 /\ e2 + 1 <= Len(s) /\ s[e2 + 1] = "-"
           /\ e3 >= e2 + 2
        THEN [type |-> "Match", id |-> SubSeq(s, 1, e1),
              start |-> SubSeq(s, e1 + 2, e2), end |-> SubSeq(s, e2 + 2, e3)]
        ELSE PyNone

TimingsPattern == [type |-> "str", v |-> "timings"]

\* re.match(pattern, string): the pattern is compiled first, and only a string
\* or a compiled pattern can be
re_match(pattern, string) ==
    IF pattern.type \notin {"str", "Pattern"} THEN Raise("TypeError")
    ELSE Return(MatchTimings(string))

\* the names rename_file can read: its parameter and locals, and the module's
\* imports; a staticmethod has no self
rename_file_names ==
    {"segment", "timings_re", "timings", "segment_id", "start", "end",
     "start_formatted", "end_formatted", "new_filename", "re", "Decimal"}
Signal_attributes ==
    {"load_from_hf", "_load_speakeroverlap_data", "_load_from_pickle",
     "_load_and_pickle_from_hf", "_load_default_data", "rename_file",
     "_format_time", "_process_speakeroverlap_data"}

\* self.format_time(t) of lines 142 and 143
self_format_time(t) ==
    IF "self" \notin rename_file_names THEN Raise("NameError")
    ELSE IF "format_time" \notin Signal_attributes THEN Raise("AttributeError")
    ELSE _format_time(t)

\* f"{s:0>6}"
PadLeft(s) ==
    [i \in 1..(6 - Len(s)) |-> "0"] \o s

WavSuffix == <<".", "w", "a", "v">>

rename_file(segment) ==
    LET id == Subscript(segment)
    IN  IF id.exc # "none" THEN id ELSE
        LET timings_re == re_match(TimingsPattern, id.val)
        IN  IF timings_re.exc # "none" THEN timings_re ELSE
        LET timings == re_match(timings_re.val, id.val)
        IN  IF timings.exc # "none" THEN timings ELSE
        IF ~Truthy(timings.val) THEN Raise("ValueError") ELSE
        LET start_formatted == self_format_time(timings.val.start)
        IN  IF start_formatted.exc # "none" THEN start_formatted ELSE
        LET end_formatted == self_format_time(timings.val.end)
        IN  IF end_formatted.exc # "none" THEN end_formatted ELSE
        Return(timings.val.id \o <<"-">> \o PadLeft(start_formatted.val)
                   \o <<"-">> \o PadLeft(end_formatted.val) \o WavSuffix)

-----------------------------------------------------------------------------
(* Python dicts, pickle and the cache file.                                *)

\* a dict is the sequence of its (key, value) pairs in insertion order
DictSet(d, k, v) ==
    IF \E i \in 1..Len(d) : d[i][1] = k
    THEN [i \in 1..Len(d) |-> IF d[i][1] = k THEN <<k, v>> ELSE d[i]]
    ELSE Append(d, <<k, v>>)

Opcode(op, k, v) == [op |-> op, key |-> k, value |-> v]

\* pickle.dump(d, f): a header, one SETITEM per pair, and STOP
pickle_dumps(d) ==
    <<Opcode("PROTO", <<>>, Segment(<<>>))>>
        \o [i \in 1..Len(d) |-> Opcode("SETITEM", d[i][1], d[i][2])]
        \o <<Opcode("STOP", <<>>, Segment(<<>>))>>

\* pickle.load(f): reads opcodes up to the first STOP and ignores what follows
\* it; no byte at all is EOFError ("Ran out of input"), a wrong first byte or
\* an end before STOP is UnpicklingError ("pickle data was truncated")
pickle_loads(bytes) ==
    LET stops == {i \in 1..Len(bytes) : bytes[i].op = "STOP"}
    IN  IF bytes = <<>> THEN Raise("EOFError")
        ELSE IF bytes[1].op # "PROTO" THEN Raise("UnpicklingError")
        ELSE IF stops = {} THEN Raise("UnpicklingError")
        ELSE LET stop == CHOOSE i \in stops : \A j \in stops : i <= j
             IN  IF \E i \in 2..(stop - 1) : bytes[i].op # "SETITEM"
                 THEN Raise("UnpicklingError")
                 ELSE Return([i \in 1..(stop - 2) |->
                                 <<bytes[i + 1].key, bytes[i + 1].value>>])

NoFile == [exists |-> FALSE, readable |-> FALSE, bytes |-> <<>>]
File(bytes, readable) == [exists |-> TRUE, readable |-> readable, bytes |-> bytes]

\* a bug: the file is looked for under a name nothing was written to
open_rb_other_name(file) == Raise("FileNotFoundError")

\* open(self.pickle_filename, 'rb'), line 82
open_rb(file) ==
    IF ~file.exists THEN Raise("FileNotFoundError")
    ELSE IF ~file.readable THEN Raise("PermissionError")
    ELSE Return("rb")

\* open(self.pickle_filename, 'wb'), line 102: creates the file or truncates it
open_wb(file) ==
    File(<<>>, IF file.exists THEN file.readable ELSE TRUE)

\* the bytes a 'wb' handle writes go to offset 0 and up; what the file holds
\* beyond them (written through another handle) stays
write_at_0(file, bytes) ==
    [file EXCEPT !.bytes = bytes \o SubSeq(file.bytes, Len(bytes) + 1, Len(file.bytes))]

\* a bug: except Exception
except_Exception(e) == TRUE

\* except FileNotFoundError, line 74
except_FileNotFoundError(e) == e = "FileNotFoundError"

-----------------------------------------------------------------------------
(* _process_speakeroverlap_data, lines 160-170.                            *)

Whitespace == {" ", "\n"}

\* seg_id.strip()
strip(s) ==
    LET ink == {i \in 1..Len(s) : s[i] \notin Whitespace}
    IN  IF ink = {} THEN <<>>
        ELSE SubSeq(s, CHOOSE i \in ink : \A j \in ink : i <= j,
                       CHOOSE i \in ink : \A j \in ink : i >= j)

_process_speakeroverlap_data(segment_file) ==
    {strip(segment_file[i]) \o WavSuffix : i \in 1..Len(segment_file)}

-----------------------------------------------------------------------------
(* The inputs: allow-list files, cache files, remote behaviours.           *)

Id12 == <<"T", "-", "1", "-", "2">>
Id13 == <<"T", "-", "1", "-", "3">>
IdBad == <<"T", "-", "x">>
Name12 == <<"T", "-", "1", "0", "0", "0", "0", "0", "0", "-",
            "2", "0", "0", "0", "0", "0", "0">>
Name13 == <<"T", "-", "1", "0", "0", "0", "0", "0", "0", "-",
            "3", "0", "0", "0", "0", "0", "0">>

\* speakeroverlap_setup/so_segments.txt: one segment name per line
AllowListFiles ==
    {<<>>,
     <<Name12 \o <<"\n">> >>,
     << <<" ">> \o Name12 \o <<" ", "\n">>, Name13 \o <<"\n">> >>}

StreamSegments == {Segment(Id12), Segment(Id13), Segment(IdBad)}

\* what load_dataset(..., streaming=True) does when called: it raises, or it
\* returns a stream that yields items and then ends or raises
Remote(opens, items, fails) == [opens |-> opens, items |-> items, fails |-> fails]
NoRemote == Remote(FALSE, <<>>, FALSE)
AllRemotes ==
    {NoRemote} \cup
    {Remote(TRUE, s, f) : s \in SeqsUpTo(StreamSegments, MaxStream), f \in BOOLEAN}
\* the behaviours with nothing to filter: the source is down, or the training
\* split is empty, or the stream breaks before its first segment
EmptyRemotes == {r \in AllRemotes : r.items = <<>>}

\* snapshots an earlier run may have pickled
Snapshots ==
    {<<>>,
     << <<Name12 \o WavSuffix, Segment(Id12)>> >>,
     << <<Name12 \o WavSuffix, Segment(Id12)>>, <<Name13 \o WavSuffix, Segment(Id13)>> >>}

WholeCaches == {File(pickle_dumps(d), TRUE) : d \in Snapshots}
\* a cache file that cannot be read, and ones cut short
BrokenCaches ==
    {File(pickle_dumps(d), FALSE) : d \in Snapshots} \cup
    {File(SubSeq(pickle_dumps(d), 1, k), TRUE) : d \in Snapshots, k \in 0..1}

-----------------------------------------------------------------------------
(* The state of one process running load_from_hf.                          *)

IdleProc ==
    [pc |-> "idle", calls |-> 0, speakeroverlap |-> FALSE, split |-> "test",
     cache0 |-> NoFile, remote |-> NoRemote, pos |-> 0, data_hf |-> <<>>,
     result |-> Pending, fetches |-> 0, remote_failed |-> FALSE,
     last |-> Pending, lastRegen |-> FALSE]

Splits == {"test", "validation"}

\* the call returns or raises: the process is at rest until its next call
Finish(st, outcome) ==
    [st EXCEPT !.pc = "done", !.result = outcome]

InitLoader(P, C) ==
    /\ arg = PyNone
    /\ ret = Pending
    /\ so_segments \in {_process_speakeroverlap_data(f) : f \in AllowListFiles}
    /\ cache \in C
    /\ cacheInit = cache
    /\ proc = [p \in P |-> IdleProc]
    /\ returned = {}
    /\ lastDump = <<>>

ProcsOne == {1}
ProcsRace == {1, 2}

Init == InitLoader(ProcsOne, {NoFile} \cup WholeCaches \cup BrokenCaches)

-----------------------------------------------------------------------------
(* load_from_hf and the methods it calls, lines 46-117.                    *)

\* lines 60-63: the call, dispatched on self.speakeroverlap
load_from_hf(p, speakeroverlap, split) ==
    /\ proc[p].pc \in {"idle", "done"}
    /\ proc[p].calls < MaxCalls
    /\ LET regenerated == /\ proc[p].speakeroverlap
                          /\ proc[p].fetches > 0
                          /\ proc[p].result.exc = "none"
       IN proc' = [proc EXCEPT ![p] =
          [IdleProc EXCEPT
              !.pc = IF speakeroverlap THEN "_load_from_pickle"
                     ELSE "_load_default_data",
              !.calls = proc[p].calls + 1,
              !.speakeroverlap = speakeroverlap,
              !.split = split,
              !.cache0 = cache,
              !.last = IF regenerated THEN proc[p].result ELSE Pending,
              !.lastRegen = regenerated]]
    /\ UNCHANGED <<arg, ret, so_segments, cache, cacheInit, returned, lastDump>>

\* lines 108-117: load_dataset is called once; any exception becomes
\* ValueError; the stream is returned as it is, not read
_load_default_data(p, r) ==
    /\ proc[p].pc = "_load_default_data"
    /\ proc' = [proc EXCEPT ![p] =
              Finish([@ EXCEPT !.remote = r, !.fetches = @ + 1,
                               !.remote_failed = ~r.opens],
                     IF r.opens
                     THEN Return([type |-> "IterableDataset",
                                  split |-> proc[p].split])
                     ELSE [exc |-> "ValueError", cause |-> "load_dataset"])]
    /\ UNCHANGED <<arg, ret, so_segments, cache, cacheInit, returned, lastDump>>

\* lines 72-74 and 82: the cache is opened; FileNotFoundError goes to line 75,
\* any other exception leaves the call
_load_from_pickle(p) ==
    /\ proc[p].pc = "_load_from_pickle"
    /\ LET f == open_rb(cache)
       IN  proc' = [proc EXCEPT ![p] =
              IF f.exc = "none" THEN [@ EXCEPT !.pc = "pickle_load"]
              ELSE IF except_FileNotFoundError(f.exc)
                   THEN [@ EXCEPT !.pc = "_load_and_pickle_from_hf"]
                   ELSE Finish(@, f)]
    /\ UNCHANGED <<arg, ret, so_segments, cache, cacheInit, returned, lastDump>>

\* line 83, under the same try
pickle_load(p) ==
    /\ proc[p].pc = "pickle_load"
    /\ LET d == pickle_loads(cache.bytes)
       IN  /\ proc' = [proc EXCEPT ![p] =
                 IF d.exc = "none" THEN Finish(@, d)
                 ELSE IF except_FileNotFoundError(d.exc)
                      THEN [@ EXCEPT !.pc = "_load_and_pickle_from_hf"]
                      ELSE Finish(@, d)]
           /\ returned' = IF d.exc = "none" THEN returned \cup {d.val} ELSE returned
    /\ UNCHANGED <<arg, ret, so_segments, cache, cacheInit, lastDump>>

\* lines 91-95: load_dataset is called; any exception becomes ValueError
_load_and_pickle_from_hf(p, r) ==
    /\ proc[p].pc = "_load_and_pickle_from_hf"
    /\ proc' = [proc EXCEPT ![p] =
              IF r.opens
              THEN [@ EXCEPT !.pc = "comprehension", !.remote = r,
                             !.fetches = @ + 1, !.pos = 1, !.data_hf = <<>>]
              ELSE Finish([@ EXCEPT !.remote = r, !.fetches = @ + 1,
                                    !.remote_failed = TRUE],
                          [exc |-> "ValueError", cause |-> "load_dataset"])]
    /\ UNCHANGED <<arg, ret, so_segments, cache, cacheInit, returned, lastDump>>

\* one segment through lines 97-99: the filter of line 99 is evaluated first,
\* rename_file(segment in self.so_segments), then the key of line 97
comprehension_item(data_hf, segment, allow) ==
    LET member == PyIn(segment, allow)
    IN  IF member.exc # "none" THEN member ELSE
        LET cond == rename_file(PyBool(member.val))
        IN  IF cond.exc # "none" THEN cond ELSE
        IF ~Truthy(PyStr(cond.val)) THEN Return(data_hf) ELSE
        LET key == rename_file(segment)
        IN  IF key.exc # "none" THEN key
            ELSE Return(DictSet(data_hf, key.val, segment))

\* lines 97-99, one step of the iteration over the stream, outside any try: the
\* next segment, or the stream's own exception, or its end
comprehension(p) ==
    /\ proc[p].pc = "comprehension"
    /\ LET st == proc[p]
           d == comprehension_item(st.data_hf, st.remote.items[st.pos], so_segments)
       IN  proc' = [proc EXCEPT ![p] =
              IF st.pos <= Len(st.remote.items)
              THEN IF d.exc = "none"
                   THEN [@ EXCEPT !.data_hf = d.val, !.pos = @ + 1]
                   ELSE Finish(@, d)
              ELSE IF st.remote.fails
                   THEN Finish([@ EXCEPT !.remote_failed = TRUE],
                               Raise("ConnectionError"))
                   ELSE [@ EXCEPT !.pc = "open_wb"]]
    /\ UNCHANGED <<arg, ret, so_segments, cache, cacheInit, returned, lastDump>>

\* line 102: the cache file is created, or truncated, before anything is written
open_pickle_wb(p) ==
    /\ proc[p].pc = "open_wb"
    /\ cache' = open_wb(cache)
    /\ proc' = [proc EXCEPT ![p].pc = "pickle_dump"]
    /\ UNCHANGED <<arg, ret, so_segments, cacheInit, returned, lastDump>>

\* lines 103-106: the pickle is written and the file closed; data_hf is returned
pickle_dump(p) ==
    /\ proc[p].pc = "pickle_dump"
    /\ cache' = write_at_0(cache, pickle_dumps(proc[p].data_hf))
    /\ proc' = [proc EXCEPT ![p] = Finish(@, Return(proc[p].data_hf))]
    /\ returned' = returned \cup {proc[p].data_hf}
    /\ lastDump' = pickle_dumps(proc[p].data_hf)
    /\ UNCHANGED <<arg, ret, so_segments, cacheInit>>

\* line 103 when the write fails (the disk is full): the with statement closes
\* the file, which keeps the bytes that were written, and OSError leaves the call
pickle_dump_fails(p) ==
    /\ proc[p].pc = "pickle_dump"
    /\ \E k \in 0..(Len(pickle_dumps(proc[p].data_hf)) - 1) :
          cache' = write_at_0(cache, SubSeq(pickle_dumps(proc[p].data_hf), 1, k))
    /\ proc' = [proc EXCEPT ![p] = Finish(@, Raise("OSError"))]
    /\ UNCHANGED <<arg, ret, so_segments, cacheInit, returned, lastDump>>

Next ==
    \E p \in ProcsOne :
        \/ \E so \in BOOLEAN, split \in Splits : load_from_hf(p, so, split)
        \/ \E r \in AllRemotes : _load_default_data(p, r)
        \/ _load_from_pickle(p)
        \/ pickle_load(p)
        \/ \E r \in AllRemotes : _load_and_pickle_from_hf(p, r)
        \/ comprehension(p)
        \/ open_pickle_wb(p)
        \/ pickle_dump(p)
        \/ pickle_dump_fails(p)

Spec == Init /\ [][Next]_vars


\* several processes in the held-back workflow on one cache path, with a source
\* that has nothing to filter and a disk that takes every write
InitRace == InitLoader(ProcsRace, {NoFile} \cup WholeCaches)

NextRace ==
    \E p \in ProcsRace :
        \/ \E split \in {"test"} : load_from_hf(p, TRUE, split)
        \/ _load_from_pickle(p)
        \/ pickle_load(p)
        \/ \E r \in EmptyRemotes : _load_and_pickle_from_hf(p, r)
        \/ comprehension(p)
        \/ open_pickle_wb(p)
        \/ pickle_dump(p)

SpecRace == InitRace /\ [][NextRace]_vars

-----------------------------------------------------------------------------
(* The static helpers applied to drawn arguments.                          *)

NoLoader ==
    /\ so_segments = {}
    /\ cache = NoFile
    /\ cacheInit = NoFile
    /\ proc = <<>>
    /\ returned = {}
    /\ lastDump = <<>>

IdDavid ==
    <<"D", "a", "v", "i", "d", "R", "o", "c", "k", "w", "e", "l", "l", "_",
      "2", "0", "0", "2", "-", "4", "9", ".", "4", "8", "4", "-",
      "5", "0", ".", "4", "4", "9">>
IdNotAnId == <<"n", "o", "t", "-", "a", "n", "-", "i", "d">>
IdTalkAbc == <<"T", "a", "l", "k", "1", "-", "a", "b", "c", "-", "5", ".", "0">>

SegmentIds ==
    {IdDavid, IdNotAnId, IdTalkAbc, Id12, Id13, IdBad}
        \cup SeqsUpTo({"T", "1", ".", "-"}, MaxIdLen)

Time49_48449999 == <<"4", "9", ".", "4", "8", "4", "4", "9", "9", "9", "9">>
Time49_4844 == <<"4", "9", ".", "4", "8", "4", "4">>
Time49_48450001 == <<"4", "9", ".", "4", "8", "4", "5", "0", "0", "0", "1">>

TimeStrings ==
    {Time49_48449999, Time49_4844, Time49_48450001}
        \cup SeqsUpTo({"0", "5", "9", "."}, MaxTimeLen)
        \cup {<<"0", ".", "0", "0", "0", "0", "0">> \o t :
                 t \in SeqsUpTo({"0", "1", "5", "9"}, MaxTail)}

InitRename ==
    /\ arg \in {Segment(id) : id \in SegmentIds}
    /\ ret = Pending
    /\ NoLoader

call_rename_file ==
    /\ ret = Pending
    /\ ret' = rename_file(arg)
    /\ UNCHANGED <<arg, so_segments, cache, cacheInit, proc, returned, lastDump>>

SpecRename == InitRename /\ [][call_rename_file]_vars

InitFormat ==
    /\ arg \in TimeStrings
    /\ ret = Pending
    /\ NoLoader

call_format_time ==
    /\ ret = Pending
    /\ ret' = _format_time(arg)
    /\ UNCHANGED <<arg, so_segments, cache, cacheInit, proc, returned, lastDump>>

SpecFormat == InitFormat /\ [][call_format_time]_vars


-----------------------------------------------------------------------------
(* The claims.                                                             *)

HeldBackDone(st) == st.pc = "done" /\ st.speakeroverlap
AtRest == \A p \in DOMAIN proc : proc[p].pc \in {"idle", "done"}
FetchPcs == {"_load_and_pickle_from_hf", "comprehension", "open_wb", "pickle_dump"}

\* the shape <talkId>-<startSeconds>-<endSeconds>: the whole id is the three
\* groups, and start and end are decimal numbers
ClaimShape(id) ==
    LET m == MatchTimings(id)
    IN  /\ m.type = "Match"
        /\ id = m.id \o <<"-">> \o m.start \o <<"-">> \o m.end
        /\ Decimal(m.start).exc = "none"
        /\ Decimal(m.end).exc = "none"

\* C1: a held-back call that starts with the cache file present and readable
\* never calls load_dataset and leaves the file as it was; when the file is the
\* pickle of a snapshot, the call returns that snapshot.
CacheShortCircuit ==
    \A p \in DOMAIN proc :
        LET st == proc[p]
        IN  (HeldBackDone(st) /\ st.cache0.exists /\ st.cache0.readable) =>
                /\ st.fetches = 0
                /\ cache = st.cache0
                /\ \A d \in Snapshots :
                      st.cache0.bytes = pickle_dumps(d) => st.result = Return(d)

\* C1, its case: a call returned the two segments of a cache file
CacheShortCircuitWitness ==
    \E p \in DOMAIN proc :
        /\ HeldBackDone(proc[p])
        /\ proc[p].cache0.exists /\ proc[p].cache0.readable
        /\ proc[p].result.exc = "none"
        /\ Len(proc[p].result.val) = 2
        /\ proc[p].fetches = 0

\* C4: a held-back call is on the fetch path only if the cache file did not
\* exist when the call started, and then it calls load_dataset; when the file
\* exists and cannot be read or unpickled, that failure leaves the call,
\* load_dataset is not called and the file is as it was.
FallbackOnlyOnMissingFile ==
    \A p \in DOMAIN proc :
        LET st == proc[p]
            unpickled == pickle_loads(st.cache0.bytes)
        IN  /\ (st.pc \in FetchPcs) => ~st.cache0.exists
            /\ HeldBackDone(st) =>
                  /\ (st.fetches > 0) <=> ~st.cache0.exists
                  /\ (st.cache0.exists /\ ~st.cache0.readable) =>
                        /\ st.result.exc = "PermissionError"
                        /\ cache = st.cache0
                  /\ (st.cache0.exists /\ st.cache0.readable
                          /\ unpickled.exc # "none") =>
                        /\ st.result.exc = unpickled.exc
                        /\ cache = st.cache0

\* C4, its case: a call that found a cut-short cache file has failed
FallbackOnlyOnMissingFileWitness ==
    \E p \in DOMAIN proc :
        /\ HeldBackDone(proc[p])
        /\ proc[p].cache0.exists
        /\ proc[p].result.exc = "UnpicklingError"
        /\ proc[p].fetches = 0

WellFormedStream(r) ==
    r.opens /\ ~r.fails /\ \A i \in 1..Len(r.items) : ClaimShape(r.items[i].id)

\* C2: a held-back call that starts without a cache file, whose source yields
\* well-formed segments and whose write succeeds, calls load_dataset once,
\* returns a snapshot and leaves a cache file holding it; the next held-back
\* call returns the same without calling load_dataset.
CacheRegenerationClaim ==
    \A p \in DOMAIN proc :
        LET st == proc[p]
        IN  /\ (HeldBackDone(st) /\ ~st.cache0.exists /\ WellFormedStream(st.remote)
                    /\ st.result.exc # "OSError") =>
                  /\ st.result.exc = "none"
                  /\ st.fetches = 1
                  /\ cache.exists
                  /\ pickle_loads(cache.bytes) = Return(st.result.val)
            /\ (HeldBackDone(st) /\ st.lastRegen) =>
                  /\ st.result = st.last
                  /\ st.fetches = 0

\* the pairs of a dict
Items(d) == {d[i] : i \in 1..Len(d)}

\* C3: a held-back call that starts without a cache file and fetches
\* well-formed segments returns a snapshot that holds, under rename_file of the
\* segment, exactly the fetched segments whose rename_file is in so_segments.
AllowListFilterClaim ==
    \A p \in DOMAIN proc :
        LET st == proc[p]
            kept == {i \in 1..Len(st.remote.items) :
                        /\ rename_file(st.remote.items[i]).exc = "none"
                        /\ rename_file(st.remote.items[i]).val \in so_segments}
        IN  (HeldBackDone(st) /\ ~st.cache0.exists /\ WellFormedStream(st.remote)
                 /\ st.result.exc # "OSError") =>
                /\ st.result.exc = "none"
                /\ Items(st.result.val) =
                      {<<rename_file(st.remote.items[i]).val, st.remote.items[i]>> :
                          i \in kept}

\* C5: a call during which the source failed, on opening or while streaming,
\* called load_dataset once and raised ValueError.
RemoteFailureClaim ==
    \A p \in DOMAIN proc :
        (proc[p].pc = "done" /\ proc[p].remote_failed) =>
            /\ proc[p].result.exc = "ValueError"
            /\ proc[p].fetches = 1

\* C10: between calls, a cache file that a call wrote is a whole pickle of a
\* snapshot that some successful call returned.
NoPartialCacheClaim ==
    (AtRest /\ cache # cacheInit) =>
        /\ cache.exists
        /\ pickle_loads(cache.bytes).exc = "none"
        /\ pickle_loads(cache.bytes).val \in returned

\* C9: with processes racing on one cache path, a finished held-back call
\* returned a snapshot or failed because its source failed; and once all are at
\* rest the cache file is exactly what the last completed dump wrote.
LastWriterWinsClaim ==
    /\ \A p \in DOMAIN proc :
          HeldBackDone(proc[p]) =>
              proc[p].result.exc = "none" \/ proc[p].remote_failed
    /\ (AtRest /\ lastDump # <<>>) => cache.bytes = lastDump

\* C6: rename_file of a segment whose id has the shape
\* <talkId>-<start>-<end> returns talkId, "-", _format_time(start) padded to 6,
\* "-", _format_time(end) padded to 6, ".wav"; and
\* DavidRockwell_2002-49.484-50.449 gives DavidRockwell_2002-004948-005044.wav.
CanonicalShapeClaim ==
    (ret # Pending /\ ClaimShape(arg.id)) =>
        LET m == MatchTimings(arg.id)
        IN  /\ ret.exc = "none"
            /\ ret.val = m.id \o <<"-">> \o PadLeft(_format_time(m.start).val)
                             \o <<"-">> \o PadLeft(_format_time(m.end).val)
                             \o WavSuffix
            /\ arg.id = IdDavid =>
                  ret.val = SubSeq(IdDavid, 1, 18)
                      \o <<"-", "0", "0", "4", "9", "4", "8",
                           "-", "0", "0", "5", "0", "4", "4">> \o WavSuffix

\* C8: rename_file raises ValueError, and nothing else, for every id that is
\* not of the shape <talkId>-<start>-<end>, and returns for every id that is.
MalformedRejectionClaim ==
    ret # Pending =>
        IF ClaimShape(arg.id) THEN ret.exc = "none" ELSE ret.exc = "ValueError"

\* the decimal a is at most the decimal b; each is digits before and after the point
DecimalLeq(a, b) ==
    LET ai == StripZeros(a.int)
        bi == StripZeros(b.int)
        n == IF Len(a.frac) > Len(b.frac) THEN Len(a.frac) ELSE Len(b.frac)
        x == ai \o [i \in 1..n |-> IF i <= Len(a.frac) THEN a.frac[i] ELSE "0"]
        y == bi \o [i \in 1..n |-> IF i <= Len(b.frac) THEN b.frac[i] ELSE "0"]
        diff == {i \in 1..Len(x) : x[i] # y[i]}
    IN  IF Len(ai) # Len(bi) THEN Len(ai) < Len(bi)
        ELSE diff = {} \/ LET i == CHOOSE i \in diff : \A j \in diff : i <= j
                          IN  DigitVal(x[i]) < DigitVal(y[i])

\* the decimal a string of _format_time stands for: its last six digits are the
\* fraction
Rendered(s) ==
    [int |-> SubSeq(s, 1, Len(s) - 6), frac |-> SubSeq(s, Len(s) - 5, Len(s))]

\* C7: _format_time of a decimal string renders a value that is not greater
\* than the string's; 49.48449999 and 49.4844 render the same, and 49.48450001
\* renders differently from both.
TruncationClaim ==
    (ret # Pending /\ Decimal(arg).exc = "none") =>
        /\ ret.exc = "none"
        /\ DecimalLeq(Rendered(ret.val), Decimal(arg).val)
        /\ arg = Time49_48449999 => ret = _format_time(Time49_4844)
        /\ arg = Time49_48450001 =>
              /\ ret # _format_time(Time49_4844)
              /\ ret # _format_time(Time49_48449999)

====
